---- MODULE Spec2Model ----
(***************************************************************************)
(* Model of the dialog handlers of InNoHassle-RoomsBot:                    *)
(*   src/src/bot/start_message.py     start_message_handler                *)
(*   src/src/bot/dialogs/roomless.py  Events (welcome screen)              *)
(*   src/src/bot/dialogs/task_view.py Loader, Events (task viewer/editor)  *)
(* Every handler is a coroutine: it is modelled step by step, one action   *)
(* per await, so that a remote failure leaves the partial effects the code *)
(* has made up to that await.  The remote API (src.api.client) and the     *)
(* dialog framework (aiogram_dialog) are the environment.                  *)
(***************************************************************************)
EXTENDS Integers, Sequences, FiniteSets, TLC

----------------------------------------------------------------------------
(* Python values.  A value is tagged with its type, so that None, booleans *)
(* and texts can meet in one variable.  A text is a sequence of characters.*)

None == [kind |-> "none"]
Bool(b) == [kind |-> "bool", val |-> b]
Str(s) == [kind |-> "str", val |-> s]
IntV(i) == [kind |-> "int", val |-> i]
Dict(d) == [kind |-> "dict", d |-> d]

EmptyDict == [k \in {} |-> None]

\* d[k] = v on a dict held as a function from its keys
Put(d, k, v) == [q \in (DOMAIN d) \cup {k} |-> IF q = k THEN v ELSE d[q]]

\* Python truthiness of a result value (bool | str | None)
Truthy(v) ==
    \/ v.kind = "bool" /\ v.val
    \/ v.kind = "str" /\ Len(v.val) > 0

IsNotNone(v) == v.kind # "none"

----------------------------------------------------------------------------
(* Texts used as results of sub-interactions.                              *)

EmptyText == << >>
Groceries == <<"G", "r", "o", "c", "e", "r", "i", "e", "s">>
Seven == <<"7">>
GoodDate == <<"0", "1", ".", "0", "2", ".", "2", "0", "2", "4", " ", "1", "0", ":", "0", "0">>
BadDate == <<"3", "1", ".", "0", "2", ".", "2", "0", "2", "4", " ", "1", "0", ":", "0", "0">>

----------------------------------------------------------------------------
(* datetime.strptime(text, "%d.%m.%Y %H:%M")                               *)

Digits == <<"0", "1", "2", "3", "4", "5", "6", "7", "8", "9">>
IsDigit(ch) == \E i \in 1..10 : Digits[i] = ch
DigitVal(ch) == (CHOOSE i \in 1..10 : Digits[i] = ch) - 1
IsSpace(ch) == ch \in {" ", "\t", "\n", "\r"}
AllDigits(s) == \A i \in 1..Len(s) : IsDigit(s[i])

\* s[a..b], empty when the range is empty or leaves the text
Slice(s, a, b) == IF a > b \/ a < 1 \/ b > Len(s) THEN << >> ELSE SubSeq(s, a, b)

RECURSIVE NumVal(_)
NumVal(s) == IF Len(s) = 0 THEN 0
             ELSE 10 * NumVal(Slice(s, 1, Len(s) - 1)) + DigitVal(s[Len(s)])

\* the regular expressions _strptime builds for the directives
\* %d: 3[0-1]|[1-2]\d|0[1-9]|[1-9]| [1-9]
MatchesDay(s) ==
    \/ Len(s) = 2 /\ AllDigits(s) /\ NumVal(s) \in 1..31
    \/ Len(s) = 1 /\ AllDigits(s) /\ NumVal(s) \in 1..9
    \/ Len(s) = 2 /\ s[1] = " " /\ IsDigit(s[2]) /\ DigitVal(s[2]) \in 1..9
\* %m: 1[0-2]|0[1-9]|[1-9]
MatchesMonth(s) ==
    \/ Len(s) = 2 /\ AllDigits(s) /\ NumVal(s) \in 1..12
    \/ Len(s) = 1 /\ AllDigits(s) /\ NumVal(s) \in 1..9
\* %Y: \d\d\d\d
MatchesYear(s) == Len(s) = 4 /\ AllDigits(s)
\* %H: 2[0-3]|[0-1]\d|\d
MatchesHour(s) ==
    \/ Len(s) = 2 /\ AllDigits(s) /\ NumVal(s) \in 0..23
    \/ Len(s) = 1 /\ AllDigits(s)
\* %M: [0-5]\d|\d
MatchesMinute(s) ==
    \/ Len(s) = 2 /\ AllDigits(s) /\ NumVal(s) \in 0..59
    \/ Len(s) = 1 /\ AllDigits(s)

DayVal(s) == IF s[1] = " " THEN DigitVal(s[2]) ELSE NumVal(s)

IsLeap(y) == (y % 4 = 0 /\ y % 100 # 0) \/ y % 400 = 0
DaysInMonth(y, m) ==
    IF m = 2 THEN (IF IsLeap(y) THEN 29 ELSE 28)
    ELSE IF m \in {4, 6, 9, 11} THEN 30 ELSE 31

\* DATE_FORMAT = "%d.%m.%Y %H:%M" as the pieces of the regular expression
\* _strptime compiles it to (a blank of the format becomes \s+)
DATE_FORMAT == <<"%d", ".", "%m", ".", "%Y", " ", "%H", ":", "%M">>

PieceMatches(piece, s) ==
    CASE piece = "%d" -> MatchesDay(s)
      [] piece = "%m" -> MatchesMonth(s)
      [] piece = "%Y" -> MatchesYear(s)
      [] piece = "%H" -> MatchesHour(s)
      [] piece = "%M" -> MatchesMinute(s)
      [] piece = " " -> Len(s) >= 1 /\ \A i \in 1..Len(s) : IsSpace(s[i])
      [] OTHER -> s = <<piece>>

\* the ways text[pos..] is matched to its end by the pieces k.. of the format,
\* each as the sequence of the matched pieces
RECURSIVE MatchFrom(_, _, _)
MatchFrom(text, pos, k) ==
    IF k > Len(DATE_FORMAT)
    THEN IF pos = Len(text) + 1 THEN {<< >>} ELSE {}
    ELSE UNION {{<<Slice(text, pos, pos + n - 1)>> \o rest : rest \in MatchFrom(text, pos + n, k + 1)} :
                n \in {m \in 1..(Len(text) - pos + 1) :
                         PieceMatches(DATE_FORMAT[k], Slice(text, pos, pos + m - 1))}}

\* the datetime of matched pieces, checked as datetime's constructor checks it
ValidDate(m) ==
    /\ NumVal(m[5]) >= 1
    /\ DayVal(m[1]) <= DaysInMonth(NumVal(m[5]), NumVal(m[3]))

\* TRUE when strptime returns a datetime, FALSE when it raises ValueError
Parses(text) == \E m \in MatchFrom(text, 1, 1) : ValidDate(m)

MakeDatetime(m) ==
    [kind |-> "datetime", y |-> NumVal(m[5]), mo |-> NumVal(m[3]), d |-> DayVal(m[1]),
     h |-> NumVal(m[7]), mi |-> NumVal(m[9])]

\* datetime.strptime(text, MainWindowConsts.DATE_FORMAT), for a text that parses
parse_datetime(text) == MakeDatetime(CHOOSE m \in MatchFrom(text, 1, 1) : ValidDate(m))

----------------------------------------------------------------------------
(* The filters of MainWindowConsts, handed to the prompt sub-interaction   *)
(* to decide whether it accepts a text.  A filter returns a Python value.  *)

\* str.isdecimal(): at least one character, and every character a decimal digit
isdecimal(s) == Len(s) > 0 /\ AllDigits(s)

\* the comparison of int(s) with zero in period_filter
PeriodIsPositive_OrZero(n) == n >= 0
PeriodIsPositive(n) == n > 0

\* return s.isdecimal() and int(s) > 0
period_filter(s) == IF isdecimal(s) THEN Bool(PeriodIsPositive(NumVal(s))) ELSE Bool(FALSE)

\* try: parse_datetime(text)  except ValueError: return False
\* the try block has no return: when the text parses, control falls off the
\* end of the function and the call evaluates to None
start_date_filter(text) == IF Parses(text) THEN None ELSE Bool(FALSE)

----------------------------------------------------------------------------
(* The world: users (one private conversation each), remote tasks, orders  *)
(* and rooms.                                                              *)

Users == {1, 2}
TaskIds == {1, 2}
RoomIds == {101, 102}

\* the number of handler runs (start message, on_start, on_process_result) in a behaviour
MaxRuns == 4

\* the exception src.api.client raises for a failed call (caught as RuntimeError
\* in start_message_handler)
RemoteError == "RuntimeError"

\* the users of the remote order a task names
OrderUsers(order_id) == IF order_id = 7 THEN <<1, 2>> ELSE << >>

\* the task a get_task_info answers with (TaskInfoResponse)
InitialTask(t) ==
    [name |-> Str(<<"T">>), description |-> Str(EmptyText),
     start_date |-> [kind |-> "datetime", y |-> 2024, mo |-> 1, d |-> 1, h |-> 0, mi |-> 0],
     period |-> IntV(1),
     order_id |-> IF t = 1 THEN IntV(7) ELSE None]

\* the room get_room_info answers with at the beginning: user 1 has one
InitialRoom(u) ==
    IF u = 1 THEN [kind |-> "room", id |-> 101, name |-> Str(<<"R">>)] ELSE None

\* the results a sub-interaction can deliver: cancelled, a decision, a text
ResultValues ==
    {None, Bool(TRUE), Bool(FALSE), Str(EmptyText), Str(Groceries), Str(Seven), Str(GoodDate)}

\* start payloads of sub-interactions entered through other paths than the
\* handlers below: no payload, a payload without intent, an intent no dispatcher knows
ForeignStartData ==
    {None,
     Dict([input |-> Str(<<"x">>)]),
     Dict([intent |-> "edit_order", input |-> Str(<<"x">>)])}

\* no filter call is under study
NoFilterCall == [filter |-> "none", text |-> EmptyText]
NotCalled == [kind |-> "not called"]

VARIABLES
    rooms,        \* remote: user -> None or the user's room
    tasks,        \* remote: task id -> [exists, info]
    stack,        \* per conversation: the navigation stack, entries [state, start_data]
    dialog_data,  \* per conversation: manager.dialog_data of the task view
    pc,           \* per conversation: the await the running handler is at, or "idle"
    call,         \* per conversation: the running (or last) handler and its arguments
    local,        \* per conversation: local variables of the running handler
    log,          \* per conversation: the calls made by the running (or last) handler, in order
    status,       \* per conversation: "none", "running", "returned" or the exception raised
    refreshed,    \* per conversation: what the last completed load_task_info stored (history)
    stale,        \* per conversation: a confirmed modify_task is not yet followed by a
                  \* get_task_info stored in dialog_data (history)
    runs,         \* handler runs begun so far
    filter_call,  \* the filter call under study: [filter, text]
    filter_result \* what that call returned, NotCalled before it is made

vars == <<rooms, tasks, stack, dialog_data, pc, call, local, log, status, refreshed, stale, runs,
          filter_call, filter_result>>

Ev(op, args, ok) == [op |-> op, args |-> args, ok |-> ok]

Top(c) == stack[c][Len(stack[c])]
Pop(st) == SubSeq(st, 1, Len(st) - 1)
Entry(state, data) == [state |-> state, start_data |-> data]

Idle(c) == pc[c] = "idle"
CanBegin(c) == Idle(c) /\ runs < MaxRuns

TopIs(c, state) == Len(stack[c]) >= 1 /\ Top(c).state = state

\* a sub-interaction is on top of the dialog `state`
ResultPendingFor(c, state) == Len(stack[c]) >= 2 /\ stack[c][Len(stack[c]) - 1].state = state

Init ==
    /\ rooms = [u \in Users |-> InitialRoom(u)]
    /\ tasks = [t \in TaskIds |-> [exists |-> TRUE, info |-> InitialTask(t)]]
    /\ stack = [c \in Users |-> << >>]
    /\ dialog_data = [c \in Users |-> EmptyDict]
    /\ pc = [c \in Users |-> "idle"]
    /\ call = [c \in Users |-> [handler |-> "none"]]
    /\ local = [c \in Users |-> EmptyDict]
    /\ log = [c \in Users |-> << >>]
    /\ status = [c \in Users |-> "none"]
    /\ refreshed = [c \in Users |-> None]
    /\ stale = [c \in Users |-> FALSE]
    /\ runs = 0
    /\ filter_call = NoFilterCall
    /\ filter_result = NotCalled

\* the handler returns
Return(c) ==
    /\ pc' = [pc EXCEPT ![c] = "idle"]
    /\ status' = [status EXCEPT ![c] = "returned"]

\* the handler ends with an exception that nothing catches
Raise(c, exc) ==
    /\ pc' = [pc EXCEPT ![c] = "idle"]
    /\ status' = [status EXCEPT ![c] = exc]

Goto(c, label) ==
    /\ pc' = [pc EXCEPT ![c] = label]
    /\ UNCHANGED status

Begin(c, args) ==
    /\ call' = [call EXCEPT ![c] = args]
    /\ runs' = runs + 1

\* manager.start(state, data, mode)
StartDialog(c, state, data, mode) ==
    /\ stack' = [stack EXCEPT ![c] =
                    IF mode = "RESET_STACK" THEN <<Entry(state, data)>>
                    ELSE Append(@, Entry(state, data))]
    /\ dialog_data' = IF mode = "RESET_STACK" THEN [dialog_data EXCEPT ![c] = EmptyDict]
                      ELSE dialog_data

\* a handler whose only statement is await manager.start(state, data=data): it runs
\* to its end in one step
StartOnly(c, handler, state, data) ==
    /\ StartDialog(c, state, data, "NORMAL")
    /\ call' = [call EXCEPT ![c] = [handler |-> handler]]
    /\ local' = [local EXCEPT ![c] = EmptyDict]
    /\ log' = [log EXCEPT ![c] = <<Ev("start", <<state, data, "NORMAL">>, TRUE)>>]
    /\ status' = [status EXCEPT ![c] = "returned"]
    /\ UNCHANGED <<rooms, tasks, pc, refreshed, stale, runs, filter_call, filter_result>>

----------------------------------------------------------------------------
(* start_message.py: start_message_handler                                 *)

SM_Start(c) ==
    /\ CanBegin(c)
    /\ Begin(c, [handler |-> "start_message_handler"])
    /\ local' = [local EXCEPT ![c] = [user_id |-> c]]
    /\ log' = [log EXCEPT ![c] = << >>]
    /\ pc' = [pc EXCEPT ![c] = "sm_create_user"]
    /\ status' = [status EXCEPT ![c] = "running"]
    /\ UNCHANGED <<rooms, tasks, stack, dialog_data, refreshed, stale, filter_call, filter_result>>

\* the try blocks catch another exception than the client raises
Caught_Nothing(exc) == FALSE

\* except RuntimeError: the exceptions the two try blocks catch
Caught(exc) == exc = "RuntimeError"

\* try: await client.create_user(user_id) except RuntimeError: pass
SM_CreateUser(c) ==
    /\ pc[c] = "sm_create_user"
    /\ \E ok \in BOOLEAN :
          /\ log' = [log EXCEPT ![c] = Append(@, Ev("create_user", <<local[c].user_id>>, ok))]
          /\ IF ok \/ Caught(RemoteError)
             THEN Goto(c, "sm_get_room_info")
             ELSE Raise(c, RemoteError)
    /\ UNCHANGED <<rooms, tasks, stack, dialog_data, call, local, refreshed, stale, runs, filter_call, filter_result>>

\* room_info = await client.get_room_info(user_id), or RuntimeError
SM_GetRoomInfo(c) ==
    /\ pc[c] = "sm_get_room_info"
    /\ \/ /\ rooms[local[c].user_id].kind = "room"
          /\ log' = [log EXCEPT ![c] = Append(@, Ev("get_room_info", <<local[c].user_id>>, TRUE))]
          /\ local' = [local EXCEPT ![c] = Put(@, "room_info", rooms[local[c].user_id])]
          /\ Goto(c, "sm_start_room")
       \/ /\ log' = [log EXCEPT ![c] = Append(@, Ev("get_room_info", <<local[c].user_id>>, FALSE))]
          /\ UNCHANGED local
          /\ IF Caught(RemoteError)
             THEN Goto(c, "sm_start_roomless")
             ELSE Raise(c, RemoteError)
    /\ UNCHANGED <<rooms, tasks, stack, dialog_data, call, refreshed, stale, runs, filter_call, filter_result>>

RoomDialogStartData(id, name) == [id |-> id, name |-> name]

SM_StartRoom(c) ==
    /\ pc[c] = "sm_start_room"
    /\ LET data == Dict([input |-> RoomDialogStartData(local[c].room_info.id, local[c].room_info.name)])
       IN /\ StartDialog(c, "RoomSG.main", data, "RESET_STACK")
          /\ log' = [log EXCEPT ![c] = Append(@, Ev("start", <<"RoomSG.main", data, "RESET_STACK">>, TRUE))]
    /\ Return(c)
    /\ UNCHANGED <<rooms, tasks, call, local, refreshed, stale, runs, filter_call, filter_result>>

SM_StartRoomless(c) ==
    /\ pc[c] = "sm_start_roomless"
    /\ StartDialog(c, "RoomlessSG.welcome", None, "RESET_STACK")
    /\ log' = [log EXCEPT ![c] = Append(@, Ev("start", <<"RoomlessSG.welcome", None, "RESET_STACK">>, TRUE))]
    /\ Return(c)
    /\ UNCHANGED <<rooms, tasks, call, local, refreshed, stale, runs, filter_call, filter_result>>

----------------------------------------------------------------------------
(* Steps shared by the dispatchers                                         *)

\* await manager.show(ShowMode.SEND), the last statement of the handler
Show(c) ==
    /\ pc[c] = "show"
    /\ log' = [log EXCEPT ![c] = Append(@, Ev("show", <<"SEND">>, TRUE))]
    /\ Return(c)
    /\ UNCHANGED <<rooms, tasks, stack, dialog_data, call, local, refreshed, stale, runs, filter_call, filter_result>>

\* a sub-interaction started by another path than the handlers of these dialogs
EnterOther(c, sd) ==
    /\ Idle(c)
    /\ TopIs(c, "RoomlessSG.welcome") \/ TopIs(c, "TaskViewSG.main")
    /\ StartOnly(c, "other", "OtherSG", sd)

PromptDialogStartData(prompt, filter) == [prompt |-> prompt, filter |-> filter]

----------------------------------------------------------------------------
(* roomless.py: Events                                                     *)

\* on_click_create_room
RL_ClickCreateRoom(c) ==
    /\ Idle(c)
    /\ TopIs(c, "RoomlessSG.welcome")
    /\ StartOnly(c, "roomless.on_click_create_room", "PromptSG.main",
                 Dict([intent |-> "create_room",
                       input |-> PromptDialogStartData("a room's name", "none")]))

\* the Start widget of the welcome window
RL_ClickInvitations(c) ==
    /\ Idle(c)
    /\ TopIs(c, "RoomlessSG.welcome")
    /\ StartOnly(c, "roomless.Start", "IncomingInvitationsSG.list",
                 Dict([intent |-> "invitations", input |-> Bool(TRUE)]))

\* on_process_result(start_data, result, manager), up to its first await
RL_Dispatch(c, start_data, result) ==
    IF start_data.kind # "dict" THEN Return(c)
    ELSE IF "intent" \notin DOMAIN start_data.d THEN Raise(c, "KeyError")
    ELSE IF start_data.d.intent = "create_room"
         THEN IF IsNotNone(result)
              THEN /\ pc' = [pc EXCEPT ![c] = "rl_create_room"]
                   /\ status' = [status EXCEPT ![c] = "running"]
              ELSE /\ pc' = [pc EXCEPT ![c] = "show"]
                   /\ status' = [status EXCEPT ![c] = "running"]
    ELSE Return(c)

\* the sub-interaction on top of the welcome screen ends with `result`
RL_OnProcessResult(c, result) ==
    /\ CanBegin(c)
    /\ ResultPendingFor(c, "RoomlessSG.welcome")
    /\ Begin(c, [handler |-> "roomless.on_process_result",
                 start_data |-> Top(c).start_data, result |-> result,
                 dialog_data |-> dialog_data[c]])
    /\ stack' = [stack EXCEPT ![c] = Pop(@)]
    /\ local' = [local EXCEPT ![c] = [user_id |-> c]]
    /\ log' = [log EXCEPT ![c] = << >>]
    /\ RL_Dispatch(c, Top(c).start_data, result)
    /\ UNCHANGED <<rooms, tasks, dialog_data, refreshed, stale, filter_call, filter_result>>

\* the start that follows create_room lacks its mode: the room view is pushed
CreateRoomStartMode_Normal == "NORMAL"

\* mode=StartMode.RESET_STACK of the start that follows create_room
CreateRoomStartMode == "RESET_STACK"

\* room_id = await client.create_room(result, manager.event.from_user.id)
RL_CreateRoom(c) ==
    /\ pc[c] = "rl_create_room"
    /\ \/ \E rid \in RoomIds :
             /\ rooms' = [rooms EXCEPT ![local[c].user_id] =
                             [kind |-> "room", id |-> rid, name |-> call[c].result]]
             /\ log' = [log EXCEPT ![c] =
                           Append(@, Ev("create_room", <<call[c].result, local[c].user_id, rid>>, TRUE))]
             /\ local' = [local EXCEPT ![c] = Put(@, "room_id", rid)]
             /\ Goto(c, "rl_start_room")
       \/ /\ log' = [log EXCEPT ![c] =
                        Append(@, Ev("create_room", <<call[c].result, local[c].user_id>>, FALSE))]
          /\ UNCHANGED <<rooms, local>>
          /\ Raise(c, RemoteError)
    /\ UNCHANGED <<tasks, stack, dialog_data, call, refreshed, stale, runs, filter_call, filter_result>>

\* await manager.start(RoomSG.main, data={"input": RoomDialogStartData(room_id, result)},
\*                     mode=StartMode.RESET_STACK)
RL_StartRoom(c) ==
    /\ pc[c] = "rl_start_room"
    /\ LET data == Dict([input |-> RoomDialogStartData(local[c].room_id, call[c].result)])
       IN /\ StartDialog(c, "RoomSG.main", data, CreateRoomStartMode)
          /\ log' = [log EXCEPT ![c] = Append(@, Ev("start", <<"RoomSG.main", data, CreateRoomStartMode>>, TRUE))]
    /\ Return(c)
    /\ UNCHANGED <<rooms, tasks, call, local, refreshed, stale, runs, filter_call, filter_result>>

----------------------------------------------------------------------------
(* task_view.py: Loader                                                    *)

\* the session context is one object shared by the conversations (here: the one of
\* conversation 1) and not one per conversation
LoadLocals_Shared(c, dd) ==
    [user_id |-> c,
     task_id |-> IF "task_id" \in DOMAIN dialog_data[1] THEN dialog_data[1].task_id ELSE dd.task_id]

\* load_task_info up to its first await: user_id and task_id are read
LoadLocals(c, dd) == [user_id |-> c, task_id |-> dd.task_id]

\* a task without an order is given an empty list of executors
ExecutorsWithoutOrder_EmptyList == [kind |-> "list", val |-> << >>]

\* manager.dialog_data["executors"] = None, for a task whose order_id is None
ExecutorsWithoutOrder == None

\* what follows a completed load_task_info in the running handler
AfterLoad(c) ==
    IF call[c].handler = "task_view.on_start" THEN Return(c) ELSE Goto(c, "show")

\* task_data = await client.get_task_info(task_id, user_id)
\* manager.dialog_data["task"] = task_data, and "executors" = None without an order
Load_GetTaskInfo(c) ==
    /\ pc[c] = "get_task_info"
    /\ LET tid == local[c].task_id
           ev(ok) == Ev("get_task_info", <<tid, local[c].user_id>>, ok)
       IN \/ /\ tasks[tid].exists
             /\ log' = [log EXCEPT ![c] = Append(@, ev(TRUE))]
             /\ local' = [local EXCEPT ![c] = Put(@, "task_data", tasks[tid].info)]
             /\ stale' = [stale EXCEPT ![c] = FALSE]
             /\ IF tasks[tid].info.order_id.kind = "none"
                THEN /\ dialog_data' = [dialog_data EXCEPT ![c] =
                                           Put(Put(@, "task", tasks[tid].info), "executors",
                                               ExecutorsWithoutOrder)]
                     /\ refreshed' = [refreshed EXCEPT ![c] =
                                         [kind |-> "some", task |-> tasks[tid].info,
                                          executors |-> ExecutorsWithoutOrder]]
                     /\ AfterLoad(c)
                ELSE /\ dialog_data' = [dialog_data EXCEPT ![c] = Put(@, "task", tasks[tid].info)]
                     /\ UNCHANGED refreshed
                     /\ Goto(c, "get_order_info")
          \/ /\ log' = [log EXCEPT ![c] = Append(@, ev(FALSE))]
             /\ UNCHANGED <<local, dialog_data, refreshed, stale>>
             /\ Raise(c, RemoteError)
    /\ UNCHANGED <<rooms, tasks, stack, call, runs, filter_call, filter_result>>

\* order_data = await client.get_order_info(task_data.order_id, user_id)
\* manager.dialog_data["executors"] = order_data.users
Load_GetOrderInfo(c) ==
    /\ pc[c] = "get_order_info"
    /\ LET oid == local[c].task_data.order_id.val
           ev(ok) == Ev("get_order_info", <<oid, local[c].user_id>>, ok)
           users == [kind |-> "list", val |-> OrderUsers(oid)]
       IN \/ /\ log' = [log EXCEPT ![c] = Append(@, ev(TRUE))]
             /\ dialog_data' = [dialog_data EXCEPT ![c] = Put(@, "executors", users)]
             /\ refreshed' = [refreshed EXCEPT ![c] =
                                 [kind |-> "some", task |-> dialog_data[c].task, executors |-> users]]
             /\ AfterLoad(c)
          \/ /\ log' = [log EXCEPT ![c] = Append(@, ev(FALSE))]
             /\ UNCHANGED <<dialog_data, refreshed>>
             /\ Raise(c, RemoteError)
    /\ UNCHANGED <<rooms, tasks, stack, call, local, stale, runs, filter_call, filter_result>>

----------------------------------------------------------------------------
(* task_view.py: Events                                                    *)

TaskViewDialogStartData(task_id) == [task_id |-> task_id]

\* the room screen opens the task view of task t: on_start(start_data, manager)
TV_OnStart(c, t) ==
    /\ CanBegin(c)
    /\ TopIs(c, "RoomSG.main")
    /\ LET start_data == Dict([input |-> TaskViewDialogStartData(t)])
           dd == [task_id |-> start_data.d.input.task_id]
       IN /\ Begin(c, [handler |-> "task_view.on_start", start_data |-> start_data,
                       dialog_data |-> EmptyDict])
          /\ stack' = [stack EXCEPT ![c] = Append(@, Entry("TaskViewSG.main", start_data))]
          /\ dialog_data' = [dialog_data EXCEPT ![c] = dd]
          /\ local' = [local EXCEPT ![c] = LoadLocals(c, dd)]
    /\ refreshed' = [refreshed EXCEPT ![c] = None]
    /\ stale' = [stale EXCEPT ![c] = FALSE]
    /\ log' = [log EXCEPT ![c] = << >>]
    /\ pc' = [pc EXCEPT ![c] = "get_task_info"]
    /\ status' = [status EXCEPT ![c] = "running"]
    /\ UNCHANGED <<rooms, tasks, filter_call, filter_result>>

\* a button of the task window starts a sub-interaction carrying `intent`
TV_StartSub(c, handler, state, intent, input) ==
    /\ Idle(c)
    /\ TopIs(c, "TaskViewSG.main")
    /\ StartOnly(c, handler, state, Dict([intent |-> intent, input |-> input]))

\* Events._prompt_string(intent, prompt, manager)
_prompt_string(c, handler, intent, prompt) ==
    TV_StartSub(c, handler, "PromptSG.main", intent, prompt)

ConfirmationDialogStartData(action, yes_message) == [action |-> action, yes_message |-> yes_message]

\* the confirmation is started without an intent in its data
on_delete_task_Untagged(c) ==
    /\ Idle(c)
    /\ TopIs(c, "TaskViewSG.main")
    /\ StartOnly(c, "task_view.on_delete_task", "ConfirmationSG.main",
                 Dict([input |-> ConfirmationDialogStartData("delete the task",
                                                             "The task has been deleted")]))

on_delete_task(c) ==
    TV_StartSub(c, "task_view.on_delete_task", "ConfirmationSG.main", "delete",
                ConfirmationDialogStartData("delete the task", "The task has been deleted"))

on_edit_name(c) ==
    _prompt_string(c, "task_view.on_edit_name", "edit_name",
                PromptDialogStartData("a new name", "NAME_INPUT_PATTERN"))

on_edit_description(c) ==
    _prompt_string(c, "task_view.on_edit_description", "edit_description",
                PromptDialogStartData("a new description", "DESCRIPTION_INPUT_PATTERN"))

on_edit_start_date(c) ==
    _prompt_string(c, "task_view.on_edit_start_date", "edit_start_date",
                PromptDialogStartData("a new start date", "start_date_filter"))

on_edit_period(c) ==
    _prompt_string(c, "task_view.on_edit_period", "edit_period",
                PromptDialogStartData("a new period", "period_filter"))

\* the request carries every value as it was given: a period stays a text
ModifyTaskBody_KeepsText(task_id, field, value) ==
    [ok |-> TRUE, body |-> Put([id |-> task_id], field, value)]

\* ModifyTaskBody(id=task_id, <field>=value): the request of modify_task.  "ok" is
\* FALSE when the body cannot be built; the period is carried as an integer.
ModifyTaskBody(task_id, field, value) ==
    IF field = "period"
    THEN IF value.kind = "str" /\ Len(value.val) > 0 /\ AllDigits(value.val)
         THEN [ok |-> TRUE, body |-> Put([id |-> task_id], field, IntV(NumVal(value.val)))]
         ELSE [ok |-> FALSE, exc |-> "ValidationError"]
    ELSE [ok |-> TRUE, body |-> Put([id |-> task_id], field, value)]

\* the name edit and the description edit write each other's field
EditField_Swapped(intent) ==
    CASE intent = "edit_name" -> "description"
      [] intent = "edit_description" -> "name"
      [] intent = "edit_start_date" -> "start_date"
      [] intent = "edit_period" -> "period"

\* the field of the task an edit intent names
EditField(intent) ==
    CASE intent = "edit_name" -> "name"
      [] intent = "edit_description" -> "description"
      [] intent = "edit_start_date" -> "start_date"
      [] intent = "edit_period" -> "period"

EditIntents == {"edit_name", "edit_description", "edit_start_date", "edit_period"}

\* the start date is stored as the text it was given, unparsed
EditValue_NoParse(intent, result) == [ok |-> TRUE, val |-> result]

\* the value an edit stores: parse_datetime(result) for the start date, result otherwise
EditValue(intent, result) ==
    IF intent = "edit_start_date"
    THEN IF result.kind # "str" THEN [ok |-> FALSE, exc |-> "TypeError"]
         ELSE IF ~Parses(result.val) THEN [ok |-> FALSE, exc |-> "ValueError"]
         ELSE [ok |-> TRUE, val |-> parse_datetime(result.val)]
    ELSE [ok |-> TRUE, val |-> result]

Plan(label, status_, locals) == [pc |-> label, status |-> status_, local |-> locals]

\* the condition on the result under which the delete branch deletes
DeleteGuard(result) == Truthy(result)

\* the edit branches lack their test of the result
EditGuard_Always(result) == TRUE

\* the condition on the result under which an edit branch modifies the task
EditGuard(result) == IsNotNone(result)

\* an unknown intent raises (a lookup of the intent in a table of handlers)
UnknownIntent_Raises(locals) == Plan("idle", "KeyError", locals)

\* no branch of the if/elif chain is taken: the handler goes on to manager.show
UnknownIntent(locals) == Plan("show", "running", locals)

\* on_process_result(start_data, result, manager) up to its first await:
\* where the handler goes, with which locals
TV_Dispatch(c, start_data, result, dd) ==
    IF start_data.kind # "dict" THEN Plan("idle", "returned", EmptyDict)
    ELSE IF "task_id" \notin DOMAIN dd THEN Plan("idle", "KeyError", EmptyDict)
    ELSE LET locals == [task_id |-> dd.task_id, user_id |-> c] IN
    IF "intent" \notin DOMAIN start_data.d THEN Plan("idle", "KeyError", locals)
    ELSE LET intent == start_data.d.intent IN
    IF intent = "delete"
    THEN IF DeleteGuard(result) THEN Plan("tv_delete_task", "running", locals)
         ELSE Plan("show", "running", locals)
    ELSE IF intent \in EditIntents
    THEN IF EditGuard(result)
         THEN LET v == EditValue(intent, result) IN
              IF ~v.ok THEN Plan("idle", v.exc, locals)
              ELSE LET b == ModifyTaskBody(locals.task_id, EditField(intent), v.val) IN
                   IF ~b.ok THEN Plan("idle", b.exc, locals)
                   ELSE Plan("tv_modify_task", "running", Put(locals, "body", b.body))
         ELSE Plan("show", "running", locals)
    ELSE UnknownIntent(locals)

\* the sub-interaction on top of the task view ends with `result`
TV_OnProcessResult(c, result) ==
    /\ CanBegin(c)
    /\ ResultPendingFor(c, "TaskViewSG.main")
    /\ Begin(c, [handler |-> "task_view.on_process_result",
                 start_data |-> Top(c).start_data, result |-> result,
                 dialog_data |-> dialog_data[c]])
    /\ stack' = [stack EXCEPT ![c] = Pop(@)]
    /\ log' = [log EXCEPT ![c] = << >>]
    /\ LET plan == TV_Dispatch(c, Top(c).start_data, result, dialog_data[c])
       IN /\ pc' = [pc EXCEPT ![c] = plan.pc]
          /\ status' = [status EXCEPT ![c] = plan.status]
          /\ local' = [local EXCEPT ![c] = plan.local]
    /\ UNCHANGED <<rooms, tasks, dialog_data, refreshed, stale, filter_call, filter_result>>

\* the delete branch lacks manager.done and return: it falls through to manager.show
AfterDeleteTask_Show == "show"

\* the statement after await client.delete_task(...): await manager.done(...)
AfterDeleteTask == "tv_done"

\* await client.delete_task(task_id, user_id)
TV_DeleteTask(c) ==
    /\ pc[c] = "tv_delete_task"
    /\ LET tid == local[c].task_id
           ev(ok) == Ev("delete_task", <<tid, local[c].user_id>>, ok)
       IN \/ /\ tasks[tid].exists
             /\ tasks' = [tasks EXCEPT ![tid].exists = FALSE]
             /\ log' = [log EXCEPT ![c] = Append(@, ev(TRUE))]
             /\ Goto(c, AfterDeleteTask)
          \/ /\ log' = [log EXCEPT ![c] = Append(@, ev(FALSE))]
             /\ UNCHANGED tasks
             /\ Raise(c, RemoteError)
    /\ UNCHANGED <<rooms, stack, dialog_data, call, local, refreshed, stale, runs, filter_call, filter_result>>

\* await manager.done(show_mode=ShowMode.SEND); return
TV_Done(c) ==
    /\ pc[c] = "tv_done"
    /\ stack' = [stack EXCEPT ![c] = Pop(@)]
    /\ dialog_data' = [dialog_data EXCEPT ![c] = EmptyDict]
    /\ log' = [log EXCEPT ![c] = Append(@, Ev("done", <<"SEND">>, TRUE))]
    /\ Return(c)
    /\ UNCHANGED <<rooms, tasks, call, local, refreshed, stale, runs, filter_call, filter_result>>

\* the remote task after a modify_task with `body`
ApplyBody(info, body) ==
    [f \in DOMAIN info |-> IF f \in DOMAIN body THEN body[f] ELSE info[f]]

\* the edit branch lacks its load_task_info: it goes on to manager.show
AfterModifyTask_Show == "show"

\* the statement after await client.modify_task(...): await Loader.load_task_info(manager)
AfterModifyTask == "get_task_info"

\* await client.modify_task(ModifyTaskBody(...), user_id); then load_task_info begins
TV_ModifyTask(c) ==
    /\ pc[c] = "tv_modify_task"
    /\ LET body == local[c].body
           ev(ok) == Ev("modify_task", <<body, local[c].user_id>>, ok)
       IN \/ /\ tasks[body.id].exists
             /\ tasks' = [tasks EXCEPT ![body.id].info = ApplyBody(@, body)]
             /\ log' = [log EXCEPT ![c] = Append(@, ev(TRUE))]
             /\ local' = [local EXCEPT ![c] = LoadLocals(c, dialog_data[c])]
             /\ stale' = [stale EXCEPT ![c] = TRUE]
             /\ Goto(c, AfterModifyTask)
          \/ /\ log' = [log EXCEPT ![c] = Append(@, ev(FALSE))]
             /\ UNCHANGED <<tasks, local, stale>>
             /\ Raise(c, RemoteError)
    /\ UNCHANGED <<rooms, stack, dialog_data, call, refreshed, runs, filter_call, filter_result>>

----------------------------------------------------------------------------

\* the conversations whose handlers run
Active == {1}

\* one step of a handler of conversation c
Step(c) ==
    \/ SM_Start(c)
    \/ SM_CreateUser(c)
    \/ SM_GetRoomInfo(c)
    \/ SM_StartRoom(c)
    \/ SM_StartRoomless(c)
    \/ RL_ClickCreateRoom(c)
    \/ RL_ClickInvitations(c)
    \/ \E result \in ResultValues : RL_OnProcessResult(c, result)
    \/ RL_CreateRoom(c)
    \/ RL_StartRoom(c)
    \/ \E sd \in ForeignStartData : EnterOther(c, sd)
    \/ \E t \in TaskIds : TV_OnStart(c, t)
    \/ on_delete_task(c)
    \/ on_edit_name(c)
    \/ on_edit_description(c)
    \/ on_edit_start_date(c)
    \/ on_edit_period(c)
    \/ \E result \in ResultValues : TV_OnProcessResult(c, result)
    \/ TV_DeleteTask(c)
    \/ TV_ModifyTask(c)
    \/ TV_Done(c)
    \/ Load_GetTaskInfo(c)
    \/ Load_GetOrderInfo(c)
    \/ Show(c)

Next == \E c \in Active : Step(c)

Spec == Init /\ [][Next]_vars

----------------------------------------------------------------------------
(* The filters as pure functions: a behaviour picks a filter and a text,   *)
(* and one step makes the call.                                            *)

\* the longest text given to period_filter
MaxTextLen == 3
PeriodAlphabet == {"0", "1", "7", "-", "+", "a"}
PeriodTexts == UNION {[1..n -> PeriodAlphabet] : n \in 0..MaxTextLen}

\* texts in the shape of DATE_FORMAT, right and wrong in each field, and other texts
DayTexts == {<<"0", "1">>, <<"1">>, <<" ", "9">>, <<"2", "9">>, <<"3", "0">>, <<"3", "1">>,
             <<"0", "0">>, <<"3", "2">>}
MonthTexts == {<<"0", "2">>, <<"2">>, <<"0", "4">>, <<"1", "2">>, <<"1", "3">>}
YearTexts == {<<"2", "0", "2", "4">>, <<"2", "0", "2", "3">>, <<"0", "0", "0", "0">>, <<"2", "4">>}
BlankTexts == {<<" ">>, <<" ", " ">>, << >>}
HourTexts == {<<"1", "0">>, <<"7">>, <<"2", "4">>}
MinuteTexts == {<<"0", "0">>, <<"5">>, <<"6", "0">>}
DateTexts ==
    {d \o <<".">> \o m \o <<".">> \o y \o b \o h \o <<":">> \o mi :
        d \in DayTexts, m \in MonthTexts, y \in YearTexts, b \in BlankTexts,
        h \in HourTexts, mi \in MinuteTexts}
    \cup {EmptyText, Groceries, Seven, GoodDate, BadDate}

InitFilters ==
    /\ Init!1 /\ Init!2 /\ Init!3 /\ Init!4 /\ Init!5 /\ Init!6
    /\ Init!7 /\ Init!8 /\ Init!9 /\ Init!10 /\ Init!11 /\ Init!12
    /\ filter_call \in [filter : {"period_filter"}, text : PeriodTexts]
                       \cup [filter : {"start_date_filter"}, text : DateTexts]
    /\ filter_result = NotCalled

FilterFrame ==
    UNCHANGED <<rooms, tasks, stack, dialog_data, pc, call, local, log, status, refreshed, stale,
                runs, filter_call>>

CallPeriodFilter ==
    /\ filter_call.filter = "period_filter"
    /\ filter_result = NotCalled
    /\ filter_result' = period_filter(filter_call.text)
    /\ FilterFrame

CallStartDateFilter ==
    /\ filter_call.filter = "start_date_filter"
    /\ filter_result = NotCalled
    /\ filter_result' = start_date_filter(filter_call.text)
    /\ FilterFrame

NextFilters == CallPeriodFilter \/ CallStartDateFilter

SpecFilters == InitFilters /\ [][NextFilters]_vars

----------------------------------------------------------------------------
(* Two conversations at once.  Each user has opened a task view (user 1    *)
(* from the room the remote had for them, user 2 from a room they created  *)
(* on the welcome screen); from there the handlers of the two task views   *)
(* interleave at their awaits.                                              *)

\* the room of user u when the task views are open
RoomOf(u) == IF u = 1 THEN InitialRoom(1) ELSE [kind |-> "room", id |-> 102, name |-> Str(Groceries)]

ExecutorsOf(t) ==
    IF InitialTask(t).order_id.kind = "none" THEN None
    ELSE [kind |-> "list", val |-> OrderUsers(InitialTask(t).order_id.val)]

\* the log of an on_start that loaded task t for user u
OnStartLog(u, t) ==
    IF InitialTask(t).order_id.kind = "none"
    THEN <<Ev("get_task_info", <<t, u>>, TRUE)>>
    ELSE <<Ev("get_task_info", <<t, u>>, TRUE),
           Ev("get_order_info", <<InitialTask(t).order_id.val, u>>, TRUE)>>

\* viewed[u] is the task whose view user u has opened
InitViews(viewed) ==
    /\ rooms = [u \in Users |-> RoomOf(u)]
    /\ tasks = [t \in TaskIds |-> [exists |-> TRUE, info |-> InitialTask(t)]]
    /\ stack = [c \in Users |->
                  <<Entry("RoomSG.main",
                          Dict([input |-> RoomDialogStartData(RoomOf(c).id, RoomOf(c).name)])),
                    Entry("TaskViewSG.main",
                          Dict([input |-> TaskViewDialogStartData(viewed[c])]))>>]
    /\ dialog_data = [c \in Users |->
                        [task_id |-> viewed[c], task |-> InitialTask(viewed[c]),
                         executors |-> ExecutorsOf(viewed[c])]]
    /\ pc = [c \in Users |-> "idle"]
    /\ call = [c \in Users |->
                 [handler |-> "task_view.on_start",
                  start_data |-> Dict([input |-> TaskViewDialogStartData(viewed[c])]),
                  dialog_data |-> EmptyDict]]
    /\ local = [c \in Users |->
                  [user_id |-> c, task_id |-> viewed[c], task_data |-> InitialTask(viewed[c])]]
    /\ log = [c \in Users |-> OnStartLog(c, viewed[c])]
    /\ status = [c \in Users |-> "returned"]
    /\ refreshed = [c \in Users |->
                      [kind |-> "some", task |-> InitialTask(viewed[c]),
                       executors |-> ExecutorsOf(viewed[c])]]
    /\ stale = [c \in Users |-> FALSE]

InitAll ==
    /\ \E viewed \in [Users -> TaskIds] : InitViews(viewed)
    /\ runs = 0
    /\ filter_call = NoFilterCall
    /\ filter_result = NotCalled

\* the handler runs of a behaviour of the two conversations, and the results their
\* sub-interactions end with
MaxRunsAll == 2
ResultValuesAll == {Bool(TRUE), Str(Seven)}
CanBeginAll == runs < MaxRunsAll

\* one step of a task-view handler of conversation c
StepView(c) ==
    \/ \E t \in TaskIds : CanBeginAll /\ TV_OnStart(c, t)
    \/ CanBeginAll /\ on_delete_task(c)
    \/ CanBeginAll /\ on_edit_name(c)
    \/ CanBeginAll /\ on_edit_description(c)
    \/ CanBeginAll /\ on_edit_start_date(c)
    \/ CanBeginAll /\ on_edit_period(c)
    \/ \E result \in ResultValuesAll : CanBeginAll /\ TV_OnProcessResult(c, result)
    \/ TV_DeleteTask(c)
    \/ TV_ModifyTask(c)
    \/ TV_Done(c)
    \/ Load_GetTaskInfo(c)
    \/ Load_GetOrderInfo(c)
    \/ Show(c)

NextAll == \E c \in Users : StepView(c)

SpecAll == InitAll /\ [][NextAll]_vars

----------------------------------------------------------------------------
(* Vocabulary of the properties                                            *)

TVRun(c) == call[c].handler = "task_view.on_process_result"
RLRun(c) == call[c].handler = "roomless.on_process_result"
SMRun(c) == call[c].handler = "start_message_handler"
Dispatch(c) == TVRun(c) \/ RLRun(c)

HasIntent(c) == call[c].start_data.kind = "dict" /\ "intent" \in DOMAIN call[c].start_data.d
IntentOf(c) == call[c].start_data.d.intent
IsText(v) == v.kind = "str"
IsTrue(v) == v.kind = "bool" /\ v.val

KnownIntents ==
    {"create_room", "edit_name", "edit_description", "edit_start_date", "edit_period", "delete"}
MutationOps == {"create_room", "modify_task", "delete_task"}
RemoteOps == MutationOps \cup {"create_user", "get_room_info", "get_task_info", "get_order_info"}

Ops(c) == {log[c][i].op : i \in 1..Len(log[c])}
Raised(c) == status[c] \notin {"none", "running", "returned"}
Returned(c) == status[c] = "returned"
OnlyShow(c) == Len(log[c]) = 1 /\ log[c][1].op = "show"

\* "task" and "executors" of a dialog_data, together
Snapshot(dd) ==
    IF "task" \in DOMAIN dd /\ "executors" \in DOMAIN dd
    THEN [kind |-> "some", task |-> dd.task, executors |-> dd.executors]
    ELSE IF "task" \notin DOMAIN dd /\ "executors" \notin DOMAIN dd THEN None
    ELSE [kind |-> "partial"]

----------------------------------------------------------------------------
\* C1: a result whose start_data carries an intent outside the known set makes
\* either dispatcher call no remote mutation, and the dispatcher does not raise.
C1_UnknownIntentNoOp ==
    \A c \in Users :
        (Dispatch(c) /\ HasIntent(c) /\ IntentOf(c) \notin KnownIntents)
        => /\ Ops(c) \cap MutationOps = {}
           /\ ~Raised(c)
           /\ Idle(c) => Returned(c)

C1_Witness ==
    \E c \in Users :
        /\ TVRun(c) /\ HasIntent(c) /\ IntentOf(c) = "edit_order"
        /\ IsText(call[c].result) /\ call[c].result.val = Groceries
        /\ Idle(c) /\ Returned(c) /\ OnlyShow(c)

\* C2: a result whose start_data is a dict without the "intent" key makes the
\* dispatcher raise nothing and call nothing remote.
C2_MissingIntentSilent ==
    \A c \in Users :
        (Dispatch(c) /\ call[c].start_data.kind = "dict"
            /\ "intent" \notin DOMAIN call[c].start_data.d)
        => /\ ~Raised(c)
           /\ Ops(c) \cap RemoteOps = {}

\* C3: after a remote call of a task-view handler has failed, "task" and
\* "executors" of dialog_data are what the last complete refresh stored.
C3_FailureKeepsLastRefresh ==
    \A c \in Users :
        (call[c].handler \in {"task_view.on_process_result", "task_view.on_start"}
            /\ status[c] = RemoteError)
        => Snapshot(dialog_data[c]) = refreshed[c]

\* C4: with intent create_room or one of the four edit intents, the empty text as
\* result makes the dispatcher call no remote mutation.
C4_EmptyTextNoMutation ==
    \A c \in Users :
        (Dispatch(c) /\ HasIntent(c) /\ IntentOf(c) \in {"create_room"} \cup EditIntents
            /\ IsText(call[c].result) /\ call[c].result.val = EmptyText)
        => Ops(c) \cap MutationOps = {}

\* C5: with one of the six known intents at the dispatcher that handles it, a
\* cancelled result (None) makes no remote call, leaves dialog_data as it was and
\* re-displays the current screen exactly once.
C5_Case(c) ==
    /\ Dispatch(c) /\ HasIntent(c) /\ call[c].result.kind = "none"
    /\ \/ TVRun(c) /\ IntentOf(c) \in KnownIntents
       \/ RLRun(c) /\ IntentOf(c) = "create_room"

C5_CancelledReDisplays ==
    \A c \in Users :
        C5_Case(c)
        => /\ Ops(c) \cap RemoteOps = {}
           /\ ~Raised(c)
           /\ dialog_data[c] = call[c].dialog_data
           /\ IF Idle(c) THEN Returned(c) /\ OnlyShow(c)
              ELSE pc[c] = "show" /\ log[c] = << >>

C5_Witness ==
    \E c \in Users :
        /\ C5_Case(c) /\ TVRun(c) /\ IntentOf(c) = "edit_name"
        /\ "task" \in DOMAIN dialog_data[c]
        /\ Idle(c) /\ OnlyShow(c)

\* C6: with intent delete, every result other than the boolean true makes the
\* task-view dispatcher call nothing remote and re-display the screen.
C6_DeleteOnlyOnTrue ==
    \A c \in Users :
        (TVRun(c) /\ HasIntent(c) /\ IntentOf(c) = "delete" /\ ~IsTrue(call[c].result))
        => /\ Ops(c) \cap RemoteOps = {}
           /\ Idle(c) => OnlyShow(c)

\* C7: with intent delete and result true the task-view dispatcher calls
\* delete_task once, with the session's task_id and the user's id, and then
\* manager.done, only after delete_task has succeeded; it makes no other call
\* (no refresh, no show), and the run returns exactly when done was called.
C7_Case(c) == TVRun(c) /\ HasIntent(c) /\ IntentOf(c) = "delete" /\ IsTrue(call[c].result)

C7_DeleteThenDone ==
    \A c \in Users :
        C7_Case(c)
        => /\ Len(log[c]) <= 2
           /\ Len(log[c]) >= 1 =>
                 /\ log[c][1].op = "delete_task"
                 /\ log[c][1].args = <<call[c].dialog_data.task_id, c>>
           /\ Len(log[c]) = 2 => log[c][1].ok /\ log[c][2].op = "done"
           /\ Returned(c) <=> Len(log[c]) = 2
           /\ Raised(c) <=> (Len(log[c]) = 1 /\ ~log[c][1].ok)
           /\ Returned(c) => \A i \in 1..Len(stack[c]) : stack[c][i].state # "TaskViewSG.main"

C7_Witness ==
    \E c \in Users : C7_Case(c) /\ Returned(c) /\ Len(log[c]) = 2 /\ ~tasks[call[c].dialog_data.task_id].exists

----------------------------------------------------------------------------
\* C8 as stated: whenever the task-view dispatcher has re-displayed the screen,
\* the snapshot in dialog_data is not older than the session's last confirmed write.
C8_DisplayedNeverStale ==
    \A c \in Users :
        (TVRun(c) /\ Len(log[c]) >= 1 /\ log[c][Len(log[c])].op = "show")
        => ~stale[c]

\* C8 as amended: in a run of the task-view dispatcher every successful
\* modify_task is immediately followed by load_task_info, and a re-display that
\* follows it in that run comes after the refresh has completed, so that the
\* snapshot shown by that run was fetched after the write.
C8_RefreshFollowsModify ==
    \A c \in Users :
        TVRun(c) =>
        \A i \in 1..Len(log[c]) :
            (log[c][i].op = "modify_task" /\ log[c][i].ok)
            => /\ i = Len(log[c]) => (pc[c] = "get_task_info" /\ stale[c])
               /\ i < Len(log[c]) => log[c][i + 1].op = "get_task_info"
               /\ \A j \in (i + 1)..Len(log[c]) :
                     log[c][j].op = "show"
                     => /\ \A k \in (i + 1)..(j - 1) :
                              log[c][k].ok /\ log[c][k].op \in {"get_task_info", "get_order_info"}
                        /\ ~stale[c]
                        /\ Snapshot(dialog_data[c]) = refreshed[c]

C8_Witness ==
    \E c \in Users :
        /\ TVRun(c) /\ Returned(c) /\ Len(log[c]) = 4
        /\ log[c][1].op = "modify_task" /\ log[c][1].ok
        /\ log[c][4].op = "show"

----------------------------------------------------------------------------
\* C9: with intent create_room and a text result N the roomless dispatcher calls
\* create_room(N, user) once and then starts RoomSG.main with the room id that call
\* returned and the name N, in RESET_STACK mode; the start happens only after a
\* successful create_room, and the stack then holds the room view alone.
C9_Case(c) == RLRun(c) /\ HasIntent(c) /\ IntentOf(c) = "create_room" /\ IsText(call[c].result)

C9_RoomData(c) == Dict([input |-> [id |-> log[c][1].args[3], name |-> call[c].result]])

C9_CreateThenStart ==
    \A c \in Users :
        C9_Case(c)
        => /\ Len(log[c]) <= 2
           /\ Len(log[c]) >= 1 =>
                 /\ log[c][1].op = "create_room"
                 /\ log[c][1].args[1] = call[c].result
                 /\ log[c][1].args[2] = c
           /\ Len(log[c]) = 2 =>
                 /\ log[c][1].ok
                 /\ log[c][2].op = "start"
                 /\ log[c][2].args = <<"RoomSG.main", C9_RoomData(c), "RESET_STACK">>
           /\ Returned(c) <=> Len(log[c]) = 2
           /\ Returned(c) => stack[c] = <<Entry("RoomSG.main", C9_RoomData(c))>>
           /\ Raised(c) <=> (Len(log[c]) = 1 /\ ~log[c][1].ok)

C9_Witness ==
    \E c \in Users :
        /\ C9_Case(c) /\ Returned(c) /\ call[c].result.val = Groceries
        /\ log[c][1].args[3] = 102

----------------------------------------------------------------------------
\* C10: start_message_handler never raises for a failure of create_user or
\* get_room_info; it calls create_user, then get_room_info, then starts exactly one
\* dialog with the stack reset: RoomSG.main with the fetched room's id and name
\* exactly when get_room_info succeeded, RoomlessSG.welcome exactly when it failed.
C10_RoomData(c) == Dict([input |-> [id |-> rooms[c].id, name |-> rooms[c].name]])

C10_StartRoutes ==
    \A c \in Users :
        SMRun(c)
        => /\ ~Raised(c)
           /\ Len(log[c]) <= 3
           /\ Len(log[c]) >= 1 => log[c][1].op = "create_user" /\ log[c][1].args = <<c>>
           /\ Len(log[c]) >= 2 => log[c][2].op = "get_room_info" /\ log[c][2].args = <<c>>
           /\ Len(log[c]) = 3 =>
                 /\ log[c][3].op = "start"
                 /\ log[c][3].args[3] = "RESET_STACK"
                 /\ stack[c] = <<Entry(log[c][3].args[1], log[c][3].args[2])>>
                 /\ IF log[c][2].ok
                    THEN /\ log[c][3].args[1] = "RoomSG.main"
                         /\ log[c][3].args[2] = C10_RoomData(c)
                    ELSE log[c][3].args[1] = "RoomlessSG.welcome"
           /\ Idle(c) <=> Len(log[c]) = 3
           /\ Idle(c) => Returned(c)

C10_Witness ==
    \E c \in Users :
        /\ SMRun(c) /\ Returned(c) /\ Len(log[c]) = 3
        /\ ~log[c][1].ok /\ log[c][2].ok
        /\ log[c][3].args[1] = "RoomSG.main"

----------------------------------------------------------------------------
\* the call under study was made
FilterCalled(f) == filter_call.filter = f /\ filter_result.kind # "not called"

\* C11: start_date_filter is a total function from texts to booleans: it returns
\* True for every text that parses as a date in the format "%d.%m.%Y %H:%M" and
\* False for every text that does not (for example "31.02.2024 10:00").
C11_StartDateFilterIsParses ==
    FilterCalled("start_date_filter")
    => /\ filter_result.kind = "bool"
       /\ filter_result.val <=> Parses(filter_call.text)

----------------------------------------------------------------------------
\* the operations of the calls of the run, in order
OpSeq(c) == [i \in 1..Len(log[c]) |-> log[c][i].op]

\* the task-view dispatcher handles intent `intent` with a text result
EditRun(c, intent) ==
    /\ TVRun(c) /\ HasIntent(c) /\ IntentOf(c) = intent
    /\ IsText(call[c].result)
    /\ "task_id" \in DOMAIN call[c].dialog_data

----------------------------------------------------------------------------
\* a get_task_info of the run has stored its snapshot
RefreshStored(c) == \E i \in 1..Len(log[c]) : log[c][i].op = "get_task_info" /\ log[c][i].ok

\* C13: when the dispatcher receives intent edit_name with a text result V, it
\* calls modify_task with name V for the session's task_id, and after the
\* following refresh the snapshot in dialog_data["task"] has name V.
C13_NameRoundTrip ==
    \A c \in Users :
        EditRun(c, "edit_name")
        => /\ Idle(c) => Len(log[c]) >= 1
           /\ Len(log[c]) >= 1 =>
                 /\ log[c][1].op = "modify_task"
                 /\ log[c][1].args = <<[id |-> call[c].dialog_data.task_id,
                                        name |-> call[c].result], c>>
           /\ RefreshStored(c) =>
                 /\ log[c][1].ok /\ log[c][2].op = "get_task_info"
                 /\ log[c][2].args[1] = call[c].dialog_data.task_id
                 /\ dialog_data[c].task.name = call[c].result

C13_Witness ==
    \E c \in Users :
        /\ EditRun(c, "edit_name") /\ call[c].result = Str(Groceries)
        /\ "task" \in DOMAIN call[c].dialog_data
        /\ call[c].dialog_data.task.name # Str(Groceries)
        /\ Returned(c)
        /\ dialog_data[c].task.name = Str(Groceries)

----------------------------------------------------------------------------
\* a text of decimal digits that denotes a positive integer: at least one
\* character, every character a digit, and a digit other than zero among them
DenotesPositiveInteger(s) ==
    /\ Len(s) >= 1
    /\ \A i \in 1..Len(s) : s[i] \in {"0", "1", "2", "3", "4", "5", "6", "7", "8", "9"}
    /\ \E i \in 1..Len(s) : s[i] # "0"

\* C14: period_filter accepts a text exactly when it is a string of decimal
\* digits denoting a positive integer; it rejects "0", the empty text, signed
\* numbers and texts with a character that is not a digit.
C14_PeriodFilterAcceptsPositive ==
    FilterCalled("period_filter")
    => /\ filter_result.kind = "bool"
       /\ filter_result.val <=> DenotesPositiveInteger(filter_call.text)

C14_Witness ==
    /\ FilterCalled("period_filter")
    /\ filter_call.text = <<"0">>
    /\ filter_result = Bool(FALSE)

----------------------------------------------------------------------------
\* the windows the two dialogs open as sub-interactions, and the tags of the spec
SubStates == {"PromptSG.main", "ConfirmationSG.main", "IncomingInvitationsSG.list"}
IntentTags ==
    {"create_room", "invitations", "delete", "edit_name", "edit_description",
     "edit_start_date", "edit_period"}

\* the tags a window (state of the entry below) gives to the sub-interaction `state`
TagsOf(parent, state) ==
    CASE parent = "RoomlessSG.welcome" /\ state = "PromptSG.main" -> {"create_room"}
      [] parent = "RoomlessSG.welcome" /\ state = "IncomingInvitationsSG.list" -> {"invitations"}
      [] parent = "TaskViewSG.main" /\ state = "ConfirmationSG.main" -> {"delete"}
      [] parent = "TaskViewSG.main" /\ state = "PromptSG.main" ->
             {"edit_name", "edit_description", "edit_start_date", "edit_period"}
      [] OTHER -> {}

\* every pending sub-interaction of the two dialogs lies on top of its window and
\* carries one tag, of that window's tags
C15_Tagged ==
    \A c \in Users : \A i \in 1..Len(stack[c]) :
        stack[c][i].state \in SubStates
        => /\ i = Len(stack[c]) /\ i >= 2
           /\ stack[c][i].start_data.kind = "dict"
           /\ "intent" \in DOMAIN stack[c][i].start_data.d
           /\ stack[c][i].start_data.d.intent \in IntentTags
           /\ stack[c][i].start_data.d.intent \in TagsOf(stack[c][i - 1].state, stack[c][i].state)

\* a mutation of a dispatcher run is the one of the tag the run was given
C15_MutationForTag ==
    \A c \in Users : \A i \in 1..Len(log[c]) :
        (Dispatch(c) /\ log[c][i].op \in MutationOps)
        => /\ HasIntent(c)
           /\ log[c][i].op = "create_room" => RLRun(c) /\ IntentOf(c) = "create_room"
           /\ log[c][i].op = "delete_task" => TVRun(c) /\ IntentOf(c) = "delete"
           /\ log[c][i].op = "modify_task" =>
                 /\ TVRun(c)
                 /\ IntentOf(c) \in {"edit_name", "edit_description", "edit_start_date", "edit_period"}

\* a step in which a dispatcher begins to run for conversation c
DispatchBegins(c) ==
    /\ call'[c] # call[c]
    /\ call'[c].handler \in {"task_view.on_process_result", "roomless.on_process_result"}

\* the dispatcher is given the data recorded at the start of the sub-interaction
\* that was pending, and that sub-interaction is no longer pending
C15_Delivered ==
    \A c \in Users :
        DispatchBegins(c)
        => /\ Len(stack[c]) >= 2
           /\ call'[c].start_data = Top(c).start_data
           /\ stack'[c] = Pop(stack[c])
           /\ \A i \in 1..Len(stack'[c]) : stack'[c][i].state \notin SubStates

\* C15: every sub-interaction started by the roomless and task-view dialogs carries
\* exactly one intent tag of {create_room, invitations, delete, edit_name,
\* edit_description, edit_start_date, edit_period}; the tag delivered with the
\* result is the one recorded at that start (Idle -> AwaitingResult(tag) -> Idle),
\* and a mutation is only dispatched for the tag of the pending sub-interaction.
C15_OneTagPerSubInteraction ==
    /\ [](C15_Tagged /\ C15_MutationForTag)
    /\ [][C15_Delivered]_vars

C15_Witness ==
    \E c \in Users :
        /\ TVRun(c) /\ HasIntent(c) /\ IntentOf(c) = "edit_description"
        /\ Returned(c)
        /\ Len(log[c]) >= 1 /\ log[c][1].op = "modify_task"
        /\ \A i \in 1..Len(stack[c]) : stack[c][i].state \notin SubStates

----------------------------------------------------------------------------
\* the session context of conversation c and the state of its handler
ConvState(c) ==
    <<stack[c], dialog_data[c], pc[c], call[c], local[c], log[c], status[c], refreshed[c], stale[c]>>

\* a step of a handler of conversation c: it makes a call or begins a run
StepOf(c) == log'[c] # log[c] \/ call'[c] # call[c]

\* a step touches one conversation only, and a dialog_data changes only in a step
\* of its own conversation's handler
C16_OwnContext ==
    \A c \in Users :
        /\ dialog_data'[c] # dialog_data[c] => StepOf(c)
        /\ ConvState(c)' # ConvState(c) => \A d \in Users \ {c} : ConvState(d)' = ConvState(d)

\* the task a run of the task view is about: the one of its own session
OwnTask(c) ==
    IF call[c].handler = "task_view.on_start" THEN call[c].start_data.d.input.task_id
    ELSE call[c].dialog_data.task_id

\* every remote call of a task-view run names the run's own user and own task
C16_OwnArguments ==
    \A c \in Users : \A i \in 1..Len(log[c]) :
        (call[c].handler \in {"task_view.on_start", "task_view.on_process_result"}
           /\ log[c][i].op \in RemoteOps)
        => /\ log[c][i].op \in {"get_task_info", "delete_task"} =>
                 log[c][i].args = <<OwnTask(c), c>>
           /\ log[c][i].op = "modify_task" =>
                 log[c][i].args[1].id = OwnTask(c) /\ log[c][i].args[2] = c
           /\ log[c][i].op = "get_order_info" =>
                 /\ log[c][i].args[2] = c
                 /\ dialog_data[c].task_id = OwnTask(c)
                 /\ dialog_data[c].task.order_id = IntV(log[c][i].args[1])

\* C16: in every interleaving of the handlers of two conversations, switching at
\* the awaits, a handler reads and writes only its own conversation's session
\* context: a conversation's dialog_data changes only in steps of its own
\* handlers, and every remote call uses the handler's own task_id and user id.
C16_SessionsIsolated ==
    /\ []C16_OwnArguments
    /\ [][C16_OwnContext]_vars

\* both dispatchers are between two awaits, on the same task: one has made its
\* modify_task and is about to refresh, the other is about to modify
C16_Witness ==
    \E c, d \in Users :
        /\ c # d /\ TVRun(c) /\ TVRun(d)
        /\ pc[c] = "get_task_info" /\ Len(log[c]) = 1 /\ log[c][1].ok
        /\ pc[d] = "tv_modify_task"
        /\ OwnTask(c) = OwnTask(d)

----------------------------------------------------------------------------
\* the positions of the modify_task calls in the log of the run
ModifyCalls(c) == {i \in 1..Len(log[c]) : log[c][i].op = "modify_task"}

\* the field of the request an edit intent names, as the dispatch table states it
FieldNamedBy(intent) ==
    CASE intent = "edit_name" -> "name"
      [] intent = "edit_description" -> "description"
      [] intent = "edit_start_date" -> "start_date"
      [] intent = "edit_period" -> "period"

\* what every edit run keeps: a modify_task is for the session's task and sets
\* the named field only, no delete_task or create_room, task_id stays
C17_Frame(c, intent) ==
    /\ \A i \in ModifyCalls(c) :
          /\ log[c][i].args[1].id = call[c].dialog_data.task_id
          /\ DOMAIN log[c][i].args[1] = {"id", FieldNamedBy(intent)}
    /\ Ops(c) \cap {"delete_task", "create_room"} = {}
    /\ "task_id" \in DOMAIN dialog_data[c]
    /\ dialog_data[c].task_id = call[c].dialog_data.task_id

Buildable(intent, text) ==
    CASE intent = "edit_start_date" -> Parses(text)
      [] intent = "edit_period" -> Len(text) >= 1 /\ AllDigits(text)
      [] OTHER -> TRUE

----------------------------------------------------------------------------
\* a load_task_info of the running (or last) task-view handler has completed
LoadCompleted(c) ==
    /\ call[c].handler \in {"task_view.on_start", "task_view.on_process_result"}
    /\ RefreshStored(c)
    /\ pc[c] # "get_order_info"
    /\ ~Raised(c)

\* C18: after every load_task_info that completes without error, the one of
\* on_start included, dialog_data holds task_id, task and executors, and executors
\* is None exactly when the stored task's order_id is None; otherwise it is the
\* user list of the order the stored task names.
C18_LoadedSnapshot ==
    \A c \in Users :
        LoadCompleted(c)
        => /\ {"task_id", "task", "executors"} \subseteq DOMAIN dialog_data[c]
           /\ dialog_data[c].task_id = OwnTask(c)
           /\ dialog_data[c].executors.kind = "none" <=> dialog_data[c].task.order_id.kind = "none"
           /\ dialog_data[c].task.order_id.kind # "none" =>
                 dialog_data[c].executors =
                     [kind |-> "list", val |-> OrderUsers(dialog_data[c].task.order_id.val)]

\* a dispatcher's refresh after an edit has loaded a task that names an order
C18_Witness ==
    \E c \in Users :
        /\ TVRun(c) /\ Returned(c) /\ LoadCompleted(c)
        /\ dialog_data[c].task.order_id.kind = "int"
        /\ dialog_data[c].executors.kind = "list"

----------------------------------------------------------------------------
\* C19: when a result with intent edit_start_date reaches the task-view dispatcher
\* with a text that does not parse in the date format, the dispatcher fails
\* (ValueError) before any remote call: no modify_task, no refresh, no re-display,
\* and dialog_data is unchanged.
C19_UnparseableDateFails ==
    \A c \in Users :
        (EditRun(c, "edit_start_date") /\ ~Parses(call[c].result.val))
        => /\ log[c] = << >>
           /\ Idle(c)
           /\ status[c] = "ValueError"
           /\ dialog_data[c] = call[c].dialog_data

C19_Witness ==
    \E c \in Users :
        /\ EditRun(c, "edit_start_date") /\ call[c].result.val = Groceries
        /\ "task" \in DOMAIN dialog_data[c]
        /\ status[c] = "ValueError"
        /\ log[c] = << >>

====
